---- MODULE Spec2Model ----
(***************************************************************************)
(* scripts/generate_combined_graph.js: fetch the contribution calendar of  *)
(* every configured account, sum the per-day counts, expand the window to  *)
(* whole Sunday..Saturday weeks, colour every cell and write the SVG.      *)
(*                                                                         *)
(* A JavaScript Date at UTC midnight is modelled by its day number (days   *)
(* since 1970-01-01): the script only ever adds whole days in UTC, and a   *)
(* millisecond timestamp does not fit TLC's 32-bit integers.  A date       *)
(* string is the tuple of its fields: <<y, m, d>> is "YYYY-MM-DD" and      *)
(* <<y, m, d, "T00:00:00Z">> is the same date followed by a time part.     *)
(***************************************************************************)
EXTENDS Integers, Sequences, FiniteSets, TLC

VARIABLES
    typeofFetch,  \* typeof fetch: "function" or "undefined"
    USERNAMES,    \* the configured account list
    DAYS,         \* the window length
    today,        \* today at UTC midnight (day number)
    pc,           \* position of the async main function
    i,            \* 1-based position of the for-of loop in USERNAMES
    aggregated,   \* isoDate -> totalCount
    exitCode,     \* process.exitCode (0 while unset)
    exitStatus,   \* the status the process ended with
    fatal,        \* why the run aborted: "none", "nofetch" or "write"
    written,      \* combined-graph.svg has been written
    start, end, totalDays, weeks, dates, max,   \* locals of the grid builder
    svg,          \* the rendered document
    attempted,    \* log: the accounts doFetch was called for, in call order
    succeeded,    \* log: for every call, whether the remote answer was usable
    expected,     \* log: day number -> counts reported by the usable answers
    partialSeen,  \* log: some unusable answer held a well-formed day record
    results,      \* replay: the doFetch result of every account
    other         \* replay: a second run over the same results in another order

vars == <<typeofFetch, USERNAMES, DAYS, today, pc, i, aggregated, exitCode,
          exitStatus, fatal, written, start, end, totalDays, weeks, dates, max,
          svg, attempted, succeeded, expected, partialSeen, results, other>>

----------------------------------------------------------------------------
(* Bounds of the model *)

MaxAccounts == 2     \* USERNAMES holds at most this many accounts
MaxDays == 2         \* the window length of the fetch pipeline
MaxCount == 1        \* a remote day record counts 0..MaxCount contributions
MaxGridDays == 8     \* window lengths 1..MaxGridDays in the grid, on every weekday
MaxGridCount == 4    \* counts 0..MaxGridCount in the grid

(* Accounts a list is drawn from; the first configured account is "a". *)
Accounts == {"a", "b"}

(* Shapes of a remote answer: the number of days of each of its weeks. *)
WeekShapes == {<< >>, <<1>>, <<2>>, <<1, 1>>}

(* Program constants *)
DefaultDays == 365
colors == <<"#ebedf0", "#9be9a8", "#40c463", "#30a14e", "#216e39">>
cell == 12
gap == 3
leftPad == 20
topPad == 12

Null == << >>
NoMapping == [k \in {} |-> 0]

----------------------------------------------------------------------------
(* Dates *)

(* Date.prototype.toISOString of a UTC midnight: the proleptic Gregorian   *)
(* calendar date of the day number, followed by the time part.             *)
toISOString(n) ==
    LET z == n + 719468
        era == z \div 146097
        doe == z - era * 146097
        yoe == (doe - doe \div 1460 + doe \div 36524 - doe \div 146096) \div 365
        doy == doe - (365 * yoe + yoe \div 4 - yoe \div 100)
        mp == (5 * doy + 2) \div 153
        d == doy - (153 * mp + 2) \div 5 + 1
        m == IF mp < 10 THEN mp + 3 ELSE mp - 9
        y == yoe + era * 400 + (IF m <= 2 THEN 1 ELSE 0)
    IN  <<y, m, d, "T00:00:00.000Z">>

(* String.prototype.slice(0,10): the first ten characters, "YYYY-MM-DD". *)
slice10(s) == SubSeq(s, 1, 3)

(* isoToDate: new Date(iso + 'T00:00:00Z'); an Invalid Date (-1) unless iso *)
(* is exactly a calendar date.                                              *)
isoToDate(iso) ==
    IF Len(iso) # 3 THEN -1
    ELSE LET y == iso[1] - (IF iso[2] <= 2 THEN 1 ELSE 0)
             era == y \div 400
             yoe == y - era * 400
             mp == IF iso[2] > 2 THEN iso[2] - 3 ELSE iso[2] + 9
             doy == (153 * mp + 2) \div 5 + iso[3] - 1
             doe == yoe * 365 + yoe \div 4 - yoe \div 100 + doy
         IN  era * 146097 + doe - 719468

(* Date.prototype.getUTCDay: 0 = Sunday; 1970-01-01 was a Thursday. *)
getUTCDay(n) == (n + 4) % 7

fromDateOf(t, D) == t - (D - 1)
fromDate == fromDateOf(today, DAYS)
toDate == today

(* Wednesday 2024-01-03 *)
TodayBase == isoToDate(<<2024, 1, 3>>)

----------------------------------------------------------------------------
(* The remote API's answers *)

(* The days a calendar for [from, to] may report: the days of the window,   *)
(* and the day before it when the first week bucket overhangs the window.  *)
RemoteDays(from, to) == {from - 1, from, to}

(* The remote writes the dates of one answer as calendar dates, with or    *)
(* without a time part.                                                    *)
DateForms == {"date", "datetime"}

DateString(n, form) == IF form = "date" THEN slice10(toISOString(n)) ELSE toISOString(n)

(* The day records of one answer; "day" is the day a record stands for     *)
(* (not read by the script), and a record without a date is malformed.     *)
DayRecords(from, to, maxCount, form) ==
    {[day |-> n, date |-> DateString(n, form), contributionCount |-> c] :
        n \in RemoteDays(from, to), c \in 0..maxCount}
    \cup {[day |-> from, date |-> Null, contributionCount |-> 0]}

RECURSIVE WeeksOf(_, _)
WeeksOf(shape, R) ==
    IF shape = << >> THEN {<< >>}
    ELSE {<<w>> \o rest : w \in [1..Head(shape) -> R], rest \in WeeksOf(Tail(shape), R)}

(* What one call of the remote API can come to: the transport or the JSON  *)
(* parse rejects, the answer lists errors, names no user, or holds weeks.  *)
Responses(from, to, maxCount) ==
    {[kind |-> k, weeks |-> << >>] : k \in {"reject", "errors", "nouser"}}
    \cup {[kind |-> "data", weeks |-> w] :
            w \in UNION {WeeksOf(shape, DayRecords(from, to, maxCount, form)) :
                            shape \in WeekShapes, form \in DateForms}}

----------------------------------------------------------------------------
(* doFetch *)

RECURSIVE Concat(_)
Concat(ws) == IF ws = << >> THEN << >> ELSE Head(ws) \o Concat(Tail(ws))

(* Variant: the date is pushed as the remote wrote it, time part included. *)
PushedDayWholeDate(d) == [date |-> d.date, count |-> d.contributionCount]

(* One pushed day: the date cut to its first ten characters, and the count. *)
PushedDay(d) == [date |-> slice10(d.date), count |-> d.contributionCount]

(* Variant: a day without a date string is skipped instead of failing the  *)
(* whole call, so the days around it are returned.                         *)
doFetchSkipsBadDays(resp) ==
    IF resp.kind # "data" THEN [ok |-> FALSE, days |-> << >>]
    ELSE LET all == SelectSeq(Concat(resp.weeks), LAMBDA d : d.date # Null)
         IN  [ok |-> TRUE, days |-> [k \in 1..Len(all) |-> PushedDay(all[k])]]

(* doFetch(login): [ok |-> FALSE] when it throws (a rejected fetch or JSON  *)
(* parse, j.errors, a missing j.data.user, a day without a date string),    *)
(* else the flattened list of the pushed days; a missing weeks list reads   *)
(* as the empty one (weeks || []).  The list under construction is local to *)
(* the call: a throw discards it.                                           *)
doFetch(resp) ==
    IF resp.kind # "data" THEN [ok |-> FALSE, days |-> << >>]
    ELSE LET all == Concat(resp.weeks)
         IN  IF \E k \in 1..Len(all) : all[k].date = Null
             THEN [ok |-> FALSE, days |-> << >>]
             ELSE [ok |-> TRUE, days |-> [k \in 1..Len(all) |-> PushedDay(all[k])]]

----------------------------------------------------------------------------
(* The fetch loop of main *)

(* Variant: the count replaces the date's value instead of adding to it. *)
AddDayOverwrites(agg, d) ==
    [k \in DOMAIN agg \cup {d.date} |-> IF k = d.date THEN d.count ELSE agg[k]]

(* aggregated[d.date] = (aggregated[d.date] || 0) + d.count *)
AddDay(agg, d) ==
    LET prev == IF d.date \in DOMAIN agg /\ agg[d.date] # 0 THEN agg[d.date] ELSE 0
    IN  [k \in DOMAIN agg \cup {d.date} |-> IF k = d.date THEN prev + d.count ELSE agg[k]]

(* for(const d of days) ... *)
RECURSIVE Accumulate(_, _)
Accumulate(agg, days) ==
    IF days = << >> THEN agg ELSE Accumulate(AddDay(agg, Head(days)), Tail(days))

(* Variant: the catch block fetches the failed account again. *)
TryCatchRetries(idx, agg, code, result) ==
    IF result.ok
    THEN [i |-> idx + 1, aggregated |-> Accumulate(agg, result.days), exitCode |-> code, pc |-> "loop"]
    ELSE [i |-> idx, aggregated |-> agg, exitCode |-> 2, pc |-> "loop"]

(* Variant: the failure is not caught, and ends main. *)
TryCatchRethrows(idx, agg, code, result) ==
    IF result.ok
    THEN [i |-> idx + 1, aggregated |-> Accumulate(agg, result.days), exitCode |-> code, pc |-> "loop"]
    ELSE [i |-> idx + 1, aggregated |-> agg, exitCode |-> 2, pc |-> "exited"]

(* Variant: a successful fetch clears process.exitCode. *)
TryCatchResets(idx, agg, code, result) ==
    IF result.ok
    THEN [i |-> idx + 1, aggregated |-> Accumulate(agg, result.days), exitCode |-> 0, pc |-> "loop"]
    ELSE [i |-> idx + 1, aggregated |-> agg, exitCode |-> 2, pc |-> "loop"]

(* The body of the loop for the account at position idx, given what doFetch *)
(* came to: the try block sums the days, the catch block sets exitCode 2;   *)
(* either way the loop goes on to the next account.                         *)
TryCatch(idx, agg, code, result) ==
    IF result.ok
    THEN [i |-> idx + 1, aggregated |-> Accumulate(agg, result.days), exitCode |-> code, pc |-> "loop"]
    ELSE [i |-> idx + 1, aggregated |-> agg, exitCode |-> 2, pc |-> "loop"]

(* Where main stands once the loop is at position idx of names. *)
LoopOrGrid(at, idx, names) == IF at = "loop" /\ idx > Len(names) THEN "grid" ELSE at

----------------------------------------------------------------------------
(* The log: what the remote reported, kept apart from what the script read *)

Usable(resp) ==
    /\ resp.kind = "data"
    /\ \A w \in 1..Len(resp.weeks) : \A k \in 1..Len(resp.weeks[w]) : resp.weeks[w][k].date # Null

Positions(resp) ==
    UNION {{<<w, k>> : k \in 1..Len(resp.weeks[w])} : w \in 1..Len(resp.weeks)}

RecordAt(resp, p) == resp.weeks[p[1]][p[2]]

RECURSIVE SumCounts(_, _)
SumCounts(resp, P) ==
    IF P = {} THEN 0
    ELSE LET p == CHOOSE q \in P : TRUE
         IN  RecordAt(resp, p).contributionCount + SumCounts(resp, P \ {p})

ReportedDays(resp) == {RecordAt(resp, p).day : p \in Positions(resp)}

ReportedCount(resp, n) ==
    SumCounts(resp, {p \in Positions(resp) : RecordAt(resp, p).day = n})

(* The per-day totals once the answer resp is counted, if it is usable. *)
Credit(exp, resp) ==
    IF ~Usable(resp) THEN exp
    ELSE [n \in DOMAIN exp \cup ReportedDays(resp) |->
            (IF n \in DOMAIN exp THEN exp[n] ELSE 0) + ReportedCount(resp, n)]

HoldsGoodDay(resp) ==
    resp.kind = "data" /\ \E p \in Positions(resp) : RecordAt(resp, p).date # Null

----------------------------------------------------------------------------
(* The grid builder and the renderer of main *)

CeilDiv(a, b) == (a + b - 1) \div b

(* Variant: weeks start on Monday. *)
GridStartMonday(from) == from - ((getUTCDay(from) + 6) % 7)

(* start: the Sunday before fromDate (fromDate itself when it is a Sunday) *)
GridStart(from) == from - getUTCDay(from)

(* Variant: the grid ends with the window. *)
GridEndAtTo(to) == to

(* end: the Saturday after toDate *)
GridEnd(to) == to + (6 - getUTCDay(to))

(* Math.round((end - start) / oneDay) + 1 *)
TotalDays(s, e) == (e - s) + 1

(* aggregated[iso] || 0 *)
CountAt(agg, iso) == IF iso \in DOMAIN agg /\ agg[iso] # 0 THEN agg[iso] ELSE 0

(* Variant: the loop runs while i <= totalDays. *)
GridDatesOneMore(s, total, agg) ==
    [k \in 1..total + 1 |->
        LET d == s + (k - 1)
            iso == slice10(toISOString(d))
        IN  [date |-> d, iso |-> iso, count |-> CountAt(agg, iso)]]

(* for(let i=0;i<totalDays;i++) dates.push({date, iso, count}) *)
GridDates(s, total, agg) ==
    [k \in 1..total |->
        LET d == s + (k - 1)
            iso == slice10(toISOString(d))
        IN  [date |-> d, iso |-> iso, count |-> CountAt(agg, iso)]]

(* Math.max(0, ...dates.map(d=>d.count)) *)
GridMax(ds) ==
    LET counts == {ds[k].count : k \in 1..Len(ds)} \cup {0}
    IN  CHOOSE m \in counts : \A c \in counts : c <= m

(* Variant: Math.floor in place of Math.ceil. *)
colorForFloors(cnt, mx) ==
    IF cnt = 0 THEN colors[1]
    ELSE IF mx = 0 THEN colors[1]
    ELSE LET level == (cnt * (Len(colors) - 1)) \div mx
             idx == IF level < Len(colors) - 1 THEN level ELSE Len(colors) - 1
         IN  colors[idx + 1]

(* colorFor(cnt), in a grid whose largest count is mx.  (cnt / mx) * 4 is    *)
(* computed on doubles; for counts far below 2^50 its ceiling is the        *)
(* ceiling of the exact quotient 4 * cnt / mx.                              *)
colorFor(cnt, mx) ==
    IF cnt = 0 THEN colors[1]
    ELSE IF mx = 0 THEN colors[1]
    ELSE LET level == CeilDiv(cnt * (Len(colors) - 1), mx)
             idx == IF level < Len(colors) - 1 THEN level ELSE Len(colors) - 1
         IN  colors[idx + 1]

(* The <rect> of the entry at 0-based index idx, with its <title>. *)
RectFor(idx, entry, mx) ==
    LET weekday == getUTCDay(entry.date)
        weekIndex == idx \div 7
    IN  [x |-> leftPad + weekIndex * (cell + gap),
         y |-> topPad + weekday * (cell + gap),
         width |-> cell, height |-> cell,
         fill |-> colorFor(entry.count, mx),
         title |-> <<entry.iso, entry.count, IF entry.count # 1 THEN "contributions" ELSE "contribution">>]

RenderSvg(ds, wks, mx) ==
    [width |-> wks * (cell + gap) + leftPad + 10,
     height |-> 7 * (cell + gap) + topPad + 10,
     rects |-> [k \in 1..Len(ds) |-> RectFor(k - 1, ds[k], mx)]]

----------------------------------------------------------------------------
(* The run *)

NoSvg == [width |-> 0, height |-> 0, rects |-> << >>]
NoOther == [aggregated |-> NoMapping, exitCode |-> 0, order |-> << >>]

SeqsUpTo(S, n) == UNION {[1..k -> S] : k \in 0..n}

AccountLists == {l \in SeqsUpTo(Accounts, MaxAccounts) : l = << >> \/ l[1] = "a"}

(* The state when the script is started, before main's first statement. *)
Started ==
    /\ pc = "check" /\ i = 1 /\ aggregated = NoMapping
    /\ exitCode = 0 /\ exitStatus = 0 /\ fatal = "none" /\ written = FALSE
    /\ start = 0 /\ end = 0 /\ totalDays = 0 /\ weeks = 0 /\ dates = << >> /\ max = 0
    /\ svg = NoSvg
    /\ attempted = << >> /\ succeeded = << >> /\ expected = NoMapping /\ partialSeen = FALSE
    /\ other = NoOther

Init ==
    /\ typeofFetch \in {"function", "undefined"}
    /\ USERNAMES \in AccountLists
    /\ DAYS = MaxDays
    /\ today = TodayBase
    /\ results = << >>
    /\ Started

gridVars == <<start, end, totalDays, weeks, dates, max, svg>>
configVars == <<typeofFetch, USERNAMES, DAYS, today, results>>
logVars == <<attempted, succeeded, expected, partialSeen>>

(* if(typeof fetch !== 'function') process.exit(1); const aggregated = {} *)
CheckFetch ==
    /\ pc = "check"
    /\ IF typeofFetch # "function"
       THEN pc' = "exited" /\ fatal' = "nofetch" /\ exitStatus' = 1
       ELSE pc' = LoopOrGrid("loop", i, USERNAMES) /\ UNCHANGED <<fatal, exitStatus>>
    /\ UNCHANGED <<i, aggregated, exitCode, written, other>>
    /\ UNCHANGED <<gridVars, configVars, logVars>>

(* One turn of the loop: await doFetch(user), then the try or the catch. *)
Fetch ==
    /\ pc = "loop" /\ i <= Len(USERNAMES)
    /\ \E resp \in Responses(fromDate, toDate, MaxCount) :
         LET st == TryCatch(i, aggregated, exitCode, doFetch(resp))
         IN  /\ i' = st.i
             /\ aggregated' = st.aggregated
             /\ exitCode' = st.exitCode
             /\ pc' = LoopOrGrid(st.pc, st.i, USERNAMES)
             /\ attempted' = Append(attempted, USERNAMES[i])
             /\ succeeded' = Append(succeeded, Usable(resp))
             /\ expected' = Credit(expected, resp)
             /\ partialSeen' = (partialSeen \/ (~Usable(resp) /\ HoldsGoodDay(resp)))
    /\ UNCHANGED <<exitStatus, fatal, written, other>>
    /\ UNCHANGED <<gridVars, configVars>>

(* Lines 83-101: start, end, totalDays, weeks, dates; line 103: max. *)
BuildGrid ==
    /\ pc = "grid"
    /\ start' = GridStart(fromDate)
    /\ end' = GridEnd(toDate)
    /\ totalDays' = TotalDays(start', end')
    /\ weeks' = CeilDiv(totalDays', 7)
    /\ dates' = GridDates(start', totalDays', aggregated)
    /\ max' = GridMax(dates')
    /\ pc' = "render"
    /\ UNCHANGED <<i, aggregated, exitCode, exitStatus, fatal, written, svg, other>>
    /\ UNCHANGED <<configVars, logVars>>

(* Lines 112-135: the document, one <rect> per entry of dates. *)
Render ==
    /\ pc = "render"
    /\ svg' = RenderSvg(dates, weeks, max)
    /\ pc' = "write"
    /\ UNCHANGED <<i, aggregated, exitCode, exitStatus, fatal, written, other>>
    /\ UNCHANGED <<start, end, totalDays, weeks, dates, max>>
    /\ UNCHANGED <<configVars, logVars>>

(* fs.writeFileSync succeeds; main returns and the process ends with       *)
(* process.exitCode.                                                       *)
WriteOk ==
    /\ pc = "write"
    /\ written' = TRUE
    /\ exitStatus' = exitCode
    /\ pc' = "done"
    /\ UNCHANGED <<i, aggregated, exitCode, fatal, other>>
    /\ UNCHANGED <<gridVars, configVars, logVars>>

(* fs.writeFileSync throws: main's promise rejects with nothing to handle  *)
(* it, and Node ends the process with status 1 whatever process.exitCode.  *)
WriteFail ==
    /\ pc = "write"
    /\ fatal' = "write"
    /\ exitStatus' = 1
    /\ pc' = "exited"
    /\ UNCHANGED <<i, aggregated, exitCode, written, other>>
    /\ UNCHANGED <<gridVars, configVars, logVars>>

Next == CheckFetch \/ Fetch \/ BuildGrid \/ Render \/ WriteOk \/ WriteFail

Spec == Init /\ [][Next]_vars

(* A fetch call that main awaits returns or fails: the loop moves on. *)
FetchReturns == pc = "loop" /\ i <= Len(USERNAMES) /\ i' = i + 1

(* Main runs its synchronous code to completion. *)
MainRuns == CheckFetch \/ BuildGrid \/ Render \/ WriteOk \/ WriteFail

(* Every fetch call returns or fails, and a runnable main is run. *)
FairSpec == Spec /\ WF_i(FetchReturns) /\ WF_vars(MainRuns)

----------------------------------------------------------------------------
(* The grid builder and the renderer on their own: a run of one account    *)
(* whose fetch has returned, for short windows ending on every weekday and *)
(* for the default window ending on a Wednesday.                           *)

InitGrid ==
    /\ typeofFetch = "function"
    /\ USERNAMES = <<"a">>
    /\ \/ DAYS \in 1..MaxGridDays /\ today \in TodayBase..TodayBase + 6
       \/ DAYS = DefaultDays /\ today = TodayBase
    /\ results = << >>
    /\ \E resp \in Responses(fromDate, toDate, MaxGridCount) :
         LET st == TryCatch(1, NoMapping, 0, doFetch(resp))
         IN  /\ i = st.i
             /\ aggregated = st.aggregated
             /\ exitCode = st.exitCode
             /\ pc = LoopOrGrid(st.pc, st.i, USERNAMES)
             /\ attempted = <<"a">>
             /\ succeeded = <<Usable(resp)>>
             /\ expected = Credit(NoMapping, resp)
             /\ partialSeen = (~Usable(resp) /\ HoldsGoodDay(resp))
    /\ exitStatus = 0 /\ fatal = "none" /\ written = FALSE
    /\ start = 0 /\ end = 0 /\ totalDays = 0 /\ weeks = 0 /\ dates = << >> /\ max = 0
    /\ svg = NoSvg
    /\ other = NoOther

NextGrid == BuildGrid \/ Render \/ WriteOk \/ WriteFail

SpecGrid == InitGrid /\ [][NextGrid]_vars

----------------------------------------------------------------------------
(* Two runs over the same per-account results: main's loop in list order,  *)
(* and the same loop body taking the accounts in any other order.          *)

(* What doFetch returns for the answers of at most one day. *)
OrderResults ==
    {doFetch(r) : r \in {q \in Responses(fromDateOf(TodayBase, MaxDays), TodayBase, MaxCount) :
                            Len(Concat(q.weeks)) <= 1}}

InitOrder ==
    /\ typeofFetch = "function"
    /\ USERNAMES \in AccountLists
    /\ DAYS = MaxDays
    /\ today = TodayBase
    /\ results \in [1..Len(USERNAMES) -> OrderResults]
    /\ Started

(* One turn of main's loop, doFetch returning the account's result. *)
FetchGiven ==
    /\ pc = "loop" /\ i <= Len(USERNAMES)
    /\ LET st == TryCatch(i, aggregated, exitCode, results[i])
       IN  /\ i' = st.i
           /\ aggregated' = st.aggregated
           /\ exitCode' = st.exitCode
           /\ pc' = LoopOrGrid(st.pc, st.i, USERNAMES)
           /\ attempted' = Append(attempted, USERNAMES[i])
           /\ succeeded' = Append(succeeded, results[i].ok)
    /\ UNCHANGED <<exitStatus, fatal, written, expected, partialSeen, other>>
    /\ UNCHANGED <<gridVars, configVars>>

(* One turn of the loop of the other run, for an account not yet taken. *)
FetchOther ==
    /\ pc # "check"
    /\ \E k \in 1..Len(USERNAMES) :
         /\ \A j \in 1..Len(other.order) : other.order[j] # k
         /\ LET st == TryCatch(k, other.aggregated, other.exitCode, results[k])
            IN  other' = [aggregated |-> st.aggregated, exitCode |-> st.exitCode,
                          order |-> Append(other.order, k)]
    /\ UNCHANGED <<pc, i, aggregated, exitCode, exitStatus, fatal, written>>
    /\ UNCHANGED <<gridVars, configVars, logVars>>

NextOrder == CheckFetch \/ FetchGiven \/ FetchOther

SpecOrder == InitOrder /\ [][NextOrder]_vars

----------------------------------------------------------------------------
(* Properties *)

LoopEnded == pc \in {"grid", "render", "write", "done"} \/ (pc = "exited" /\ fatal = "write")
GridBuilt == pc \in {"render", "write", "done"} \/ (pc = "exited" /\ fatal = "write")
Rendered == pc \in {"write", "done"} \/ (pc = "exited" /\ fatal = "write")
Terminated == pc \in {"done", "exited"}

InWindow(n) == fromDate <= n /\ n <= toDate
SomeFailed == \E k \in 1..Len(succeeded) : ~succeeded[k]
AllFailed == \A k \in 1..Len(succeeded) : ~succeeded[k]
AllSucceeded == Len(succeeded) = Len(USERNAMES) /\ \A k \in 1..Len(succeeded) : succeeded[k]

RECURSIVE SumOf(_, _)
SumOf(f, S) ==
    IF S = {} THEN 0 ELSE LET x == CHOOSE y \in S : TRUE IN f[x] + SumOf(f, S \ {x})

(* C1: the fetch loop calls doFetch for every account of the list exactly   *)
(* once, in list order, one at a time: the accounts attempted so far are    *)
(* always the first i-1 accounts of the list, whatever failed, the loop is  *)
(* left only when that is the whole list, and no account is fetched again.  *)
C1_EveryAccountOnceInOrder ==
    /\ Len(attempted) = i - 1
    /\ Len(attempted) <= Len(USERNAMES)
    /\ attempted = SubSeq(USERNAMES, 1, Len(attempted))
    /\ Len(succeeded) = Len(attempted)
    /\ (pc = "loop" => Len(attempted) < Len(USERNAMES))
    /\ (LoopEnded => attempted = USERNAMES)

(* The first account failed and the second was still fetched, with success. *)
C1_Witness ==
    pc = "grid" /\ USERNAMES = <<"a", "b">> /\ succeeded = <<FALSE, TRUE>>
    /\ attempted = <<"a", "b">>

(* C2: for every date the aggregated mapping holds the sum of the counts    *)
(* the usable answers reported for that date (an account listed twice       *)
(* counts twice), and nothing of an unusable answer, not even the days that *)
(* preceded its malformed day; so the totals agree as well.  This holds     *)
(* after every turn of the loop, hence when the loop has ended.             *)
C2_AggregatedIsSumOfSuccesses ==
    /\ \A k \in DOMAIN aggregated :
         /\ Len(k) = 3
         /\ isoToDate(k) \in DOMAIN expected
         /\ aggregated[k] = expected[isoToDate(k)]
    /\ \A n \in DOMAIN expected : slice10(toISOString(n)) \in DOMAIN aggregated
    /\ SumOf(aggregated, DOMAIN aggregated) = SumOf(expected, DOMAIN expected)

(* The loop has ended; one answer failed after a well-formed day, the other *)
(* reported the same date twice and the date holds the sum.                 *)
C2_Witness ==
    /\ pc = "done" /\ partialSeen /\ Len(USERNAMES) = 2 /\ SomeFailed
    /\ \E k \in DOMAIN aggregated : aggregated[k] = 2 * MaxCount

(* C3 as stated: unless the file write fails, the run writes the artifact;  *)
(* that is, a run that ended without the artifact ended on a failed write.  *)
C3_WrittenUnlessWriteFails == pc = "exited" => fatal = "write"

AllFailedGridIsZero ==
    (AllFailed /\ GridBuilt) =>
        /\ aggregated = NoMapping
        /\ max = 0
        /\ \A k \in 1..Len(dates) : dates[k].count = 0
        /\ (Rendered => \A k \in 1..Len(svg.rects) : svg.rects[k].fill = colors[1])
        /\ (Rendered => Len(svg.rects) = Len(dates) /\ Len(dates) > 0)

(* C3, amended: provided the runtime has a global fetch, every fetch call   *)
(* returns or fails and the file write succeeds, the run eventually writes  *)
(* the artifact whatever accounts failed; the write comes only after every  *)
(* account was attempted, and when every account failed the mapping is      *)
(* empty and the grid is built with count 0 and the lowest colour in every  *)
(* cell.                                                                    *)
C3_ArtifactEventuallyWritten ==
    /\ [](written => attempted = USERNAMES)
    /\ []AllFailedGridIsZero
    /\ (typeofFetch = "function") ~> (written \/ fatal = "write")

(* Both accounts failed and the artifact is written. *)
C3_Witness ==
    written /\ Len(USERNAMES) = 2 /\ succeeded = <<FALSE, FALSE>> /\ Len(svg.rects) > 0

ExitStatusOk ==
    Terminated =>
        /\ exitStatus = 0 <=> (AllSucceeded /\ written)
        /\ (pc = "done" /\ SomeFailed) => (exitStatus = 2 /\ written)
        /\ pc = "exited" => (exitStatus = 1 /\ ~written /\ fatal \in {"nofetch", "write"})

(* C4: the exit status is 0 exactly when every account's fetch succeeded    *)
(* and the artifact was written; a completed run with a failed fetch ends   *)
(* with status 2, a fatal failure (no fetch in the runtime, or a failed     *)
(* write) with status 1; and once a fetch has failed, no later fetch sets   *)
(* process.exitCode back.                                                   *)
C4_ExitStatus ==
    /\ []ExitStatusOk
    /\ [](SomeFailed /\ pc \in {"loop", "grid", "render", "write", "done"} => exitCode = 2)
    /\ [][exitCode = 2 => exitCode' = 2]_vars

(* A failed fetch followed by a successful one, and the run completed. *)
C4_Witness ==
    pc = "done" /\ succeeded = <<FALSE, TRUE>> /\ exitStatus = 2 /\ aggregated # NoMapping

(* C5: the run that takes the accounts in list order and a run that takes   *)
(* the same per-account results in any other order end with the same        *)
(* aggregated mapping (and the same process.exitCode).                      *)
C5_OrderIndependent ==
    (pc = "grid" /\ Len(other.order) = Len(USERNAMES)) =>
        /\ other.aggregated = aggregated
        /\ other.exitCode = exitCode

(* Two accounts taken in the opposite order, both reporting the same date. *)
C5_Witness ==
    /\ pc = "grid" /\ other.order = <<2, 1>>
    /\ results[1].ok /\ results[2].ok /\ results[1] # results[2]
    /\ \E k \in DOMAIN aggregated : aggregated[k] = MaxCount /\ other.aggregated[k] = MaxCount
    /\ Len(results[1].days) = 1 /\ Len(results[2].days) = 1
    /\ results[1].days[1].date = results[2].days[1].date

BucketOf(fill) == CHOOSE b \in 0..Len(colors) - 1 : colors[b + 1] = fill

(* C6: max is the largest count of the grid (0 when all are zero); a cell   *)
(* of count c gets bucket 0 when c = 0 or max = 0, and otherwise the least  *)
(* b with b * max >= 4 * c, which is ceil(c / max * 4), within 1..4; the    *)
(* cell of the largest count gets bucket 4.                                 *)
C6_ColorBuckets ==
    Rendered =>
        /\ \A k \in 1..Len(dates) : dates[k].count >= 0 /\ dates[k].count <= max
        /\ (max = 0 \/ \E k \in 1..Len(dates) : dates[k].count = max)
        /\ Len(svg.rects) = Len(dates)
        /\ \A k \in 1..Len(dates) :
             LET c == dates[k].count
                 b == BucketOf(svg.rects[k].fill)
             IN  /\ svg.rects[k].fill \in {colors[j] : j \in 1..Len(colors)}
                 /\ (c = 0 \/ max = 0) => b = 0
                 /\ (c > 0 /\ max > 0) =>
                        /\ b \in 1..4
                        /\ b * max >= 4 * c
                        /\ (b - 1) * max < 4 * c
                 /\ (c = max /\ max > 0) => b = 4

(* A grid with a cell in bucket 4, one in bucket 2 or 3 and an empty one. *)
C6_Witness ==
    /\ pc = "done" /\ max > 0
    /\ \E k \in 1..Len(dates) : BucketOf(svg.rects[k].fill) \in {2, 3}
    /\ \E k \in 1..Len(dates) : BucketOf(svg.rects[k].fill) = 4
    /\ \E k \in 1..Len(dates) : BucketOf(svg.rects[k].fill) = 0

(* C7 as stated: every key of the aggregated mapping is a date of [from, to]. *)
C7_KeysInsideWindow ==
    \A k \in DOMAIN aggregated : Len(k) = 3 /\ InWindow(isoToDate(k))

(* C7, amended: every key of the aggregated mapping is the calendar date of *)
(* a day some usable answer reported; the days are collected as they come,  *)
(* so the keys lie in [from, to] when the answers report no day outside it. *)
C7_KeysAreReportedDays ==
    /\ \A k \in DOMAIN aggregated :
         /\ Len(k) = 3
         /\ isoToDate(k) \in DOMAIN expected
         /\ slice10(toISOString(isoToDate(k))) = k
    /\ (\A n \in DOMAIN expected : InWindow(n)) =>
          \A k \in DOMAIN aggregated : InWindow(isoToDate(k))

(* An answer whose first week overhangs the window put the day before from *)
(* into the mapping.                                                       *)
C7_Witness ==
    /\ LoopEnded
    /\ slice10(toISOString(fromDate - 1)) \in DOMAIN aggregated
    /\ slice10(toISOString(toDate)) \in DOMAIN aggregated

KnownSunday == isoToDate(<<2024, 1, 7>>)
IsWeekday(n, wd) == (n - KnownSunday - wd) % 7 = 0

(* C8: start is the Sunday on or before from, end the Saturday on or after  *)
(* to, and the grid has 7 * ceil((DAYS + startOffset + endOffset) / 7)      *)
(* = 7 * weeks cells; for DAYS = 365 and today a Wednesday, 53 or 54 weeks. *)
C8_WholeWeeks ==
    GridBuilt =>
        LET startOffset == fromDate - start
            endOffset == end - toDate
            span == DAYS + startOffset + endOffset
        IN  /\ IsWeekday(start, 0) /\ startOffset \in 0..6
            /\ IsWeekday(end, 6) /\ endOffset \in 0..6
            /\ totalDays = span
            /\ 7 * (weeks - 1) < span /\ span <= 7 * weeks
            /\ Len(dates) = 7 * weeks
            /\ ((DAYS = 365 /\ IsWeekday(today, 3)) => weeks \in {53, 54})

(* The default window on a Wednesday: 53 weeks. *)
C8_Witness ==
    pc = "done" /\ DAYS = 365 /\ IsWeekday(today, 3) /\ weeks = 53 /\ Len(dates) = 371

(* C9: the cell at index i is drawn in column floor(i / 7) and in the row   *)
(* of its own date's weekday, which is i mod 7; no two cells share a place. *)
C9_CellPositions ==
    Rendered =>
        /\ \A k \in 1..Len(svg.rects) :
             /\ svg.rects[k].x = leftPad + ((k - 1) \div 7) * (cell + gap)
             /\ svg.rects[k].y = topPad + ((k - 1) % 7) * (cell + gap)
             /\ IsWeekday(dates[k].date, (k - 1) % 7)
        /\ Cardinality({<<svg.rects[k].x, svg.rects[k].y>> : k \in 1..Len(svg.rects)})
             = Len(svg.rects)

(* A grid of several weeks whose window starts in mid-week. *)
C9_Witness ==
    pc = "done" /\ Len(svg.rects) >= 14 /\ ~IsWeekday(fromDate, 0) /\ ~IsWeekday(toDate, 6)

CountOfDay(n) ==
    IF \E k \in DOMAIN aggregated : Len(k) = 3 /\ isoToDate(k) = n
    THEN aggregated[CHOOSE k \in DOMAIN aggregated : Len(k) = 3 /\ isoToDate(k) = n]
    ELSE 0

(* C10: the cells are the dates start..end, each once, in increasing order  *)
(* one day apart; every date of [from, to] is in exactly one cell; a cell's *)
(* count is the aggregated value of its date, 0 when the date is absent.    *)
C10_CellsAreGridDates ==
    GridBuilt =>
        /\ Len(dates) = end - start + 1
        /\ \A k \in 1..Len(dates) :
             /\ dates[k].date = start + (k - 1)
             /\ isoToDate(dates[k].iso) = dates[k].date
             /\ dates[k].count = CountOfDay(dates[k].date)
        /\ \A n \in fromDate..toDate :
             Cardinality({k \in 1..Len(dates) : dates[k].date = n}) = 1

(* A grid holding a counted date of the window, a counted date outside it  *)
(* and a date of the window no account reported.                           *)
C10_Witness ==
    /\ pc = "done"
    /\ \E k \in 1..Len(dates) : InWindow(dates[k].date) /\ dates[k].count > 0
    /\ \E k \in 1..Len(dates) : ~InWindow(dates[k].date) /\ dates[k].count > 0
    /\ \E k \in 1..Len(dates) : InWindow(dates[k].date) /\ dates[k].iso \notin DOMAIN aggregated

====
